---- MODULE Spec2Model ----
(***************************************************************************)
(* Routing-waste evaluation of the NeuromorphicModelling repository:       *)
(* the binary core tree (NeuronMapper), the hierarchical core tree with    *)
(* 4-wide leaf groups (HBSNeuronMapper), the LCA/broadcast router          *)
(* (RoutingSimulator::simulate) and the HBS mask router                    *)
(* (HBSRoutingSimulator::simulateNeuronToNeuron), run one after the other  *)
(* on the same connectivity matrix and neuron-to-core map as main() does.  *)
(***************************************************************************)
EXTENDS Integers, Sequences, FiniteSets, TLC

(***************************************************************************)
(* Bounds of the model.                                                    *)
(***************************************************************************)
\* number of neurons (rows of the connectivity matrix)
NumNeurons == 3

\* largest number of cores handed to the two tree builders
MaxCores == 5

\* largest number of non-zero entries of the connectivity matrix
MaxEdges == 2

\* reportWasteStatistics is called at most this many times besides the one
\* call main() makes
MaxExtraReports == 2

\* the topology builders are applied to every endpoint count 0 .. MaxBuild
MaxBuild == 64

\* largest weight of a matrix of integer weights
MaxWeight == 2

\* the LCA computation is applied to every target set over up to this many
\* endpoints
MaxLcaCores == 10

\* the endpoint count of the runs over a topology with one entry missing
DegradedCoreCount == 5

(***************************************************************************)
(* Program constants.                                                      *)
(***************************************************************************)
\* HBSRoutingSimulator.cpp: static constexpr int MAX_GROUP_SIZE = 4
MAX_GROUP_SIZE == 4

\* RoutingSimulator.cpp: const int rootCore = 30
rootCore == 30

\* RoutingSimulator constructor: weightThreshold = 0, compared with >
LcaWeightThreshold == 0

\* HBSRoutingSimulator constructor: weightThreshold(1.0f), compared with >=
HbsWeightThreshold == 1

\* the value the code uses for "no node": -1
NoNode == -1

Neurons == 0 .. (NumNeurons - 1)

\* Utils::loadConnectivityMatrix binarises every entry to 0 or 1
Weights == {0, 1}

(***************************************************************************)
(* Small helpers on maps (std::map / std::unordered_map as functions whose *)
(* DOMAIN is the set of keys present) and on sequences.                    *)
(***************************************************************************)
EmptyMap == [k \in {} |-> 0]

\* m[k] = v on a std::map: insert or overwrite
Put(m, k, v) == (k :> v) @@ m

\* the value a counter map reports for k: an absent key counts as zero
Get(m, k) == IF k \in DOMAIN m THEN m[k] ELSE 0

Range(s) == {s[i] : i \in DOMAIN s}

RECURSIVE SumOver(_, _)
\* sum of the values of map m over the key set S
SumOver(m, S) ==
    IF S = {} THEN 0
    ELSE LET k == CHOOSE x \in S : TRUE IN m[k] + SumOver(m, S \ {k})

SumMap(m) == SumOver(m, DOMAIN m)

Min(S) == CHOOSE x \in S : \A y \in S : x <= y

Max(S) == CHOOSE x \in S : \A y \in S : x >= y

RECURSIVE SetToSeq(_)
\* the elements of a finite set of integers in increasing order
SetToSeq(S) ==
    IF S = {} THEN << >>
    ELSE <<Min(S)>> \o SetToSeq(S \ {Min(S)})

Reverse(s) == [i \in 1 .. Len(s) |-> s[Len(s) + 1 - i]]

(***************************************************************************)
(* Topology builders.  A topology is [tree, parent, root]: tree maps a     *)
(* switch id to the sequence of its children, parent maps a node to its    *)
(* parent (the root to -1).                                                *)
(***************************************************************************)
RECURSIVE PairLevel(_, _, _)
\* NeuronMapper::mapNeurons, the for-loop pairing (i, i+1) of one level
PairLevel(level, i, b) ==
    IF i + 1 <= Len(level)
    THEN LET left == level[i]
             right == level[i + 1]
             parent == b.next_id
         IN PairLevel(level, i + 2,
                [tree |-> Put(b.tree, parent, <<left, right>>),
                 parent |-> Put(Put(b.parent, left, parent), right, parent),
                 next_id |-> b.next_id + 1,
                 next_level |-> Append(b.next_level, parent)])
    ELSE b

\* mutant of LoneNode: the odd node of a level is left without a parent
LoneNode_Dropped(level, b) == b

\* NeuronMapper::mapNeurons, the odd node of a level gets a dummy parent
\* whose second child is the filler -1
LoneNode(level, b) ==
    IF Len(level) % 2 = 1
    THEN LET lone == level[Len(level)]
             dummy == b.next_id
         IN [tree |-> Put(b.tree, dummy, <<lone, NoNode>>),
             parent |-> Put(b.parent, lone, dummy),
             next_id |-> b.next_id + 1,
             next_level |-> Append(b.next_level, dummy)]
    ELSE b

RECURSIVE BinaryLevels(_, _)
\* NeuronMapper::mapNeurons, while (current_level.size() > 1)
BinaryLevels(current_level, b) ==
    IF Len(current_level) > 1
    THEN LET nb == LoneNode(current_level,
                       PairLevel(current_level, 1,
                           [b EXCEPT !.next_level = << >>]))
         IN BinaryLevels(nb.next_level, nb)
    ELSE [b EXCEPT !.next_level = current_level]

\* mutant of buildBinaryTree: the switch created first is made the root
buildBinaryTree_FirstSwitchRoot(core_count) ==
    LET b == BinaryLevels([i \in 1 .. core_count |-> i - 1],
                 [tree |-> EmptyMap, parent |-> EmptyMap,
                  next_id |-> core_count, next_level |-> << >>])
    IN [tree |-> b.tree,
        parent |-> Put(b.parent, core_count, NoNode),
        root |-> core_count]

\* NeuronMapper::mapNeurons, tree construction for core_count cores
buildBinaryTree(core_count) ==
    LET b == BinaryLevels([i \in 1 .. core_count |-> i - 1],
                 [tree |-> EmptyMap, parent |-> EmptyMap,
                  next_id |-> core_count, next_level |-> << >>])
        current_level == b.next_level
    IN IF current_level # << >>
       THEN LET root == current_level[1]
            IN [tree |-> b.tree,
                parent |-> IF root \notin DOMAIN b.parent
                           THEN Put(b.parent, root, NoNode) ELSE b.parent,
                root |-> root]
       ELSE [tree |-> b.tree, parent |-> b.parent, root |-> NoNode]

RECURSIVE LeafGroups_Pairs(_, _, _)
\* mutant of LeafGroups: the cores are grouped 2 by 2
LeafGroups_Pairs(core_count, i, b) ==
    IF i < core_count
    THEN LET members == {c \in i .. (i + 1) : c < core_count}
             sw == b.next_id
         IN LeafGroups_Pairs(core_count, i + 2,
                [tree |-> Put(b.tree, sw, SetToSeq(members)),
                 parent |-> [c \in members |-> sw] @@ b.parent,
                 next_id |-> b.next_id + 1,
                 next_level |-> Append(b.next_level, sw)])
    ELSE b

RECURSIVE LeafGroups(_, _, _)
\* HBSNeuronMapper::buildHBSTree, grouping the cores 4 by 4 under leaf switches
LeafGroups(core_count, i, b) ==
    IF i < core_count
    THEN LET members == {c \in i .. (i + 3) : c < core_count}
             children == SetToSeq(members)
             sw == b.next_id
         IN LeafGroups(core_count, i + 4,
                [tree |-> Put(b.tree, sw, children),
                 parent |-> [c \in members |-> sw] @@ b.parent,
                 next_id |-> b.next_id + 1,
                 next_level |-> Append(b.next_level, sw)])
    ELSE b

RECURSIVE HbsPairLevel(_, _, _)
\* HBSNeuronMapper::buildHBSTree, the for-loop over one level of switches:
\* the last switch of an odd level gets a parent of its own with one child
HbsPairLevel(level, i, b) ==
    IF i <= Len(level)
    THEN LET left == level[i]
             right == IF i + 1 <= Len(level) THEN level[i + 1] ELSE NoNode
             parent == b.next_id
         IN HbsPairLevel(level, i + 2,
                [tree |-> Put(b.tree, parent,
                              IF right # NoNode THEN <<left, right>> ELSE <<left>>),
                 parent |-> IF right # NoNode
                            THEN Put(Put(b.parent, left, parent), right, parent)
                            ELSE Put(b.parent, left, parent),
                 next_id |-> b.next_id + 1,
                 next_level |-> Append(b.next_level, parent)])
    ELSE b

RECURSIVE HbsLevels(_, _)
\* HBSNeuronMapper::buildHBSTree, while (current_level.size() > 1)
HbsLevels(current_level, b) ==
    IF Len(current_level) > 1
    THEN LET nb == HbsPairLevel(current_level, 1,
                       [b EXCEPT !.next_level = << >>])
         IN HbsLevels(nb.next_level, nb)
    ELSE [b EXCEPT !.next_level = current_level]

\* mutant of buildHBSTree: the node created last is made the root without
\* testing that a level exists
buildHBSTree_RootAlways(core_count) ==
    LET leaves == LeafGroups(core_count, 0,
                      [tree |-> EmptyMap, parent |-> EmptyMap,
                       next_id |-> core_count, next_level |-> << >>])
        b == HbsLevels(leaves.next_level, leaves)
    IN [tree |-> b.tree,
        parent |-> Put(b.parent, b.next_id - 1, NoNode),
        root |-> b.next_id - 1]

\* HBSNeuronMapper::buildHBSTree
buildHBSTree(core_count) ==
    LET leaves == LeafGroups(core_count, 0,
                      [tree |-> EmptyMap, parent |-> EmptyMap,
                       next_id |-> core_count, next_level |-> << >>])
        b == HbsLevels(leaves.next_level, leaves)
        current_level == b.next_level
    IN IF current_level # << >>
       THEN [tree |-> b.tree,
             parent |-> Put(b.parent, current_level[1], NoNode),
             root |-> current_level[1]]
       ELSE [tree |-> b.tree, parent |-> b.parent, root |-> NoNode]

(***************************************************************************)
(* Program state.                                                          *)
(***************************************************************************)
VARIABLES
    connectivityMatrix,     \* Utils::connectivityMatrix, 0/1 entries
    neuronToCoreMap,        \* NeuronMapper::neuron_to_core (keys: mapped neurons)
    coreTree,               \* NeuronMapper::core_tree (binary)
    coreParent,             \* NeuronMapper::core_parent (binary)
    hbsCoreTree,            \* HBSNeuronMapper::core_tree
    hbsCoreParent,          \* HBSNeuronMapper::core_parent
    coreCount,              \* HBSNeuronMapper::core_count, the number of cores
    pc,                     \* position of main(): which simulator runs
    src,                    \* loop variable of RoutingSimulator::simulate
    neuronWaste,            \* RoutingSimulator::simulate, per-source waste
    coreWaste,              \* RoutingSimulator::simulate, per-core waste
    lcaReport,              \* final summary written by RoutingSimulator::simulate
    actualTargetsPerNeuron, \* HBSRoutingSimulator, cached target sets
    pending,                \* keys of actualTargetsPerNeuron not yet iterated
    wastePerNeuron,         \* HBSRoutingSimulator, per-source waste
    wastedMessages,         \* HBSRoutingSimulator, per-core waste
    hbsReport,              \* HBSRoutingSimulator::reportWasteStatistics output
    extraReports,           \* calls of reportWasteStatistics besides main()'s
    workers,                \* routing calls run side by side: their progress
    last                    \* locals of the most recent routing call

vars == <<connectivityMatrix, neuronToCoreMap, coreTree, coreParent,
          hbsCoreTree, hbsCoreParent, coreCount, pc, src, neuronWaste, coreWaste,
          lcaReport, actualTargetsPerNeuron, pending, wastePerNeuron,
          wastedMessages, hbsReport, extraReports, workers, last>>

inputs == <<connectivityMatrix, neuronToCoreMap, coreTree, coreParent,
            hbsCoreTree, hbsCoreParent, coreCount>>

(***************************************************************************)
(* LCA / broadcast router: RoutingSimulator.                               *)
(***************************************************************************)
\* neuronToCoreMap.count(src) ? neuronToCoreMap.at(src) : -1
CoreOf(n) == IF n \in DOMAIN neuronToCoreMap THEN neuronToCoreMap[n] ELSE NoNode

\* RoutingSimulator::simulate, the destinations source s talks to:
\* connectivityMatrix[src][i] > weightThreshold
LcaDestinations(s) ==
    {i \in Neurons : connectivityMatrix[s][i] > LcaWeightThreshold}

\* RoutingSimulator::simulate, the keys of targetCores built for source s
LcaTargetCores(s) ==
    {neuronToCoreMap[i] : i \in {j \in Neurons :
        /\ connectivityMatrix[s][j] > LcaWeightThreshold
        /\ j \in DOMAIN neuronToCoreMap
        /\ neuronToCoreMap[j] # CoreOf(s)}}

RECURSIVE PathUp(_, _)
\* RoutingSimulator::findLCA, the path from a core up to the root
PathUp(parentMap, core) ==
    IF core = NoNode THEN << >>
    ELSE <<core>> \o PathUp(parentMap,
             IF core \in DOMAIN parentMap THEN parentMap[core] ELSE NoNode)

RECURSIVE CommonPrefixLast(_, _, _, _)
\* RoutingSimulator::findLCA, the scan of the two root-first paths
CommonPrefixLast(pathA, pathB, i, lca) ==
    IF i <= Len(pathA) /\ i <= Len(pathB) /\ pathA[i] = pathB[i]
    THEN CommonPrefixLast(pathA, pathB, i + 1, pathA[i])
    ELSE lca

\* RoutingSimulator::findLCA
findLCA(parentMap, coreA, coreB) ==
    CommonPrefixLast(Reverse(PathUp(parentMap, coreA)),
                     Reverse(PathUp(parentMap, coreB)), 1, NoNode)

\* mutant of ChooseLca: the LCA of the two smallest targets is taken
ChooseLca_SmallestTwo(srcCore, actualTargetCores) ==
    IF Cardinality(actualTargetCores) = 1
    THEN findLCA(coreParent, srcCore, CHOOSE c \in actualTargetCores : TRUE)
    ELSE findLCA(coreParent, Min(actualTargetCores),
                 Min(actualTargetCores \ {Min(actualTargetCores)}))

\* RoutingSimulator::simulate, the LCA chosen for a non-empty target set
ChooseLca(srcCore, actualTargetCores) ==
    IF Cardinality(actualTargetCores) = 1
    THEN LET targetCore == CHOOSE c \in actualTargetCores : TRUE
         IN IF targetCore # srcCore
            THEN findLCA(coreParent, srcCore, targetCore)
            ELSE srcCore
    ELSE findLCA(coreParent, Min(actualTargetCores), Max(actualTargetCores))

RECURSIVE collectLeafDescendants(_, _)
\* RoutingSimulator::simulate, the lambda collectLeafDescendants: every node
\* that is no key of coreTree is inserted, the filler child -1 included
collectLeafDescendants(tree, node) ==
    IF node \notin DOMAIN tree THEN {node}
    ELSE UNION {collectLeafDescendants(tree, tree[node][i]) :
                    i \in DOMAIN tree[node]}

\* mutant of LcaWastedLeaves: the test against actualTargetCores is left
\* out, every leaf under the LCA is charged
LcaWastedLeaves_All(leafDescendants, actualTargetCores) == leafDescendants

\* RoutingSimulator::simulate, the loop over leafDescendants: the leaves
\* whose coreWaste entry is incremented (each once)
LcaWastedLeaves(leafDescendants, actualTargetCores) ==
    {leaf \in leafDescendants : leaf \notin actualTargetCores}

\* mutant of LcaTotalCoreWaste: the source's own core is left out of the
\* count, as `core != srcCore` would do
LcaTotalCoreWaste_ExcludeSource(leafDescendants, actualTargetCores) ==
    Cardinality(LcaWastedLeaves(leafDescendants, actualTargetCores) \ {CoreOf(src)})

\* RoutingSimulator::simulate, totalCoreWaste after the loop
LcaTotalCoreWaste(leafDescendants, actualTargetCores) ==
    Cardinality(LcaWastedLeaves(leafDescendants, actualTargetCores))

\* mutant of IncrementAll: the counter map is rebuilt from this call's
\* charges alone, dropping what earlier calls recorded
IncrementAll_Fresh(counter, cs) == [c \in Range(cs) |-> 1]

RECURSIVE IncrementAll(_, _)
\* counter[c]++ for every element c of the sequence cs
IncrementAll(counter, cs) ==
    IF cs = << >> THEN counter
    ELSE IncrementAll(Put(counter, Head(cs), Get(counter, Head(cs)) + 1), Tail(cs))

NoCall ==
    [router |-> "none", src |-> NoNode, routed |-> FALSE, srcCore |-> NoNode,
     targets |-> {}, lca |-> NoNode, leaves |-> {}, parents |-> {},
     localMasks |-> EmptyMap, globalMask |-> {}, slots |-> EmptyMap,
     srcWaste |-> 0, coreInc |-> << >>, upPath |-> << >>, hangs |-> FALSE,
     routingPath |-> << >>]

RECURSIVE VisitChildren(_, _, _)
\* RoutingSimulator::shortestPath, the loop over the children of current:
\* each child not yet visited is queued with current as its predecessor
VisitChildren(children, st, current) ==
    IF children = << >> THEN st
    ELSE LET child == Head(children)
         IN VisitChildren(Tail(children),
                IF child \notin st.visited
                THEN [q |-> Append(st.q, child),
                      visited |-> st.visited \cup {child},
                      parent |-> Put(st.parent, child, current)]
                ELSE st,
                current)

RECURSIVE BfsLoop(_, _, _, _)
\* RoutingSimulator::shortestPath, the BFS over parent and child links; the
\* result is the local predecessor map `parent`
BfsLoop(st, endCore, tree, parentMap) ==
    IF st.q = << >> THEN st.parent
    ELSE LET current == Head(st.q)
             popped == [st EXCEPT !.q = Tail(@)]
         IN IF current = endCore THEN st.parent
            ELSE LET up == IF current \in DOMAIN parentMap
                              /\ parentMap[current] \notin popped.visited
                           THEN [q |-> Append(popped.q, parentMap[current]),
                                 visited |-> popped.visited \cup {parentMap[current]},
                                 parent |-> Put(popped.parent, parentMap[current],
                                                current)]
                           ELSE popped
                     down == IF current \in DOMAIN tree
                             THEN VisitChildren(tree[current], up, current)
                             ELSE up
                 IN BfsLoop(down, endCore, tree, parentMap)

RECURSIVE TracePath(_, _, _)
\* RoutingSimulator::shortestPath, the loop `while (current != -1)` walking
\* the predecessor map back from endCore; parent[current] on a missing key
\* inserts and yields 0.  ends is FALSE when the walk revisits a node, that
\* is when the loop of the code never leaves
TracePath(parent, current, fuel) ==
    IF current = NoNode THEN [path |-> << >>, ends |-> TRUE]
    ELSE IF fuel = 0 THEN [path |-> << >>, ends |-> FALSE]
    ELSE LET known == current \in DOMAIN parent
             rest == TracePath(IF known THEN parent ELSE Put(parent, current, 0),
                               IF known THEN parent[current] ELSE 0,
                               fuel - 1)
         IN [path |-> <<current>> \o rest.path, ends |-> rest.ends]

\* mutant of shortestPath: the walk back never reaches the start
shortestPath_NoReturn(startCore, endCore, tree, parentMap) ==
    [path |-> << >>, ends |-> FALSE]

\* RoutingSimulator::shortestPath
shortestPath(startCore, endCore, tree, parentMap) ==
    LET parent == BfsLoop([q |-> <<startCore>>, visited |-> {startCore},
                           parent |-> (startCore :> NoNode)],
                          endCore, tree, parentMap)
        walk == TracePath(parent, endCore, Cardinality(DOMAIN parent) + 3)
    IN [path |-> Reverse(walk.path), ends |-> walk.ends]

RECURSIVE AscendEnd(_, _, _)
\* RoutingSimulator::simulate, the loop appending "U": the first position of
\* upPath (1-based) that holds rootCore or lcaCore
AscendEnd(upPath, lcaCore, i) ==
    IF i <= Len(upPath) /\ upPath[i] # rootCore /\ upPath[i] # lcaCore
    THEN AscendEnd(upPath, lcaCore, i + 1)
    ELSE i

\* RoutingSimulator::simulate, the route string built from upPath, one unit
\* per character; upPath ends with lcaCore, so the position read is in it
routingPath(upPath, lcaCore) ==
    LET i == AscendEnd(upPath, lcaCore, 1)
        ascend == [k \in 1 .. (i - 1) |-> "U"]
    IN IF upPath[i] = lcaCore
       THEN ascend \o <<"B">>
       ELSE ascend \o <<"D">>
            \o [k \in 1 .. (Len(upPath) - i) |->
                   IF upPath[i + k] < upPath[i + k - 1] THEN "L" ELSE "R"]
            \o <<"B">>

\* RoutingSimulator::simulate, one iteration of the loop over src: the
\* locals of the call; routed is FALSE on every `continue`
LcaRoute(s) ==
    LET targetCores == LcaTargetCores(s)
        skipped == [NoCall EXCEPT !.router = "lca", !.src = s,
                                  !.srcCore = CoreOf(s)]
    IN IF targetCores = {} THEN skipped
       ELSE IF s \notin DOMAIN neuronToCoreMap THEN skipped
       ELSE LET srcCore == neuronToCoreMap[s]
                actualTargetCores == {c \in targetCores : c # srcCore}
            IN IF actualTargetCores = {} THEN skipped
               ELSE LET lcaCore == ChooseLca(srcCore, actualTargetCores)
                    IN IF lcaCore \notin DOMAIN coreParent /\ lcaCore # rootCore
                       THEN [skipped EXCEPT !.targets = actualTargetCores,
                                            !.lca = lcaCore]
                       ELSE LET leafDescendants ==
                                    collectLeafDescendants(coreTree, lcaCore)
                                upPath == shortestPath(srcCore, lcaCore,
                                              coreTree, coreParent)
                            IN IF ~upPath.ends
                               THEN [skipped EXCEPT !.targets = actualTargetCores,
                                                    !.lca = lcaCore,
                                                    !.hangs = TRUE]
                               ELSE
                               [skipped EXCEPT
                                  !.routed = TRUE,
                                  !.targets = actualTargetCores,
                                  !.lca = lcaCore,
                                  !.upPath = upPath.path,
                                  !.routingPath = routingPath(upPath.path, lcaCore),
                                  !.leaves = leafDescendants,
                                  !.srcWaste = LcaTotalCoreWaste(leafDescendants,
                                                   actualTargetCores),
                                  !.coreInc = SetToSeq(LcaWastedLeaves(
                                      leafDescendants, actualTargetCores))]

\* mutant of WasteReport: the total is kept across calls and added to
WasteReport_Accumulating(perNeuron, perCore) ==
    [total |-> hbsReport.total + SumMap(perNeuron),
     perNeuron |-> [k \in {x \in DOMAIN perNeuron : perNeuron[x] > 0} |-> perNeuron[k]],
     perCore |-> [k \in {x \in DOMAIN perCore : perCore[x] > 0} |-> perCore[k]]]

\* mutant of NonZero: the test `kv.second > 0` is left out
NonZero_All(m) == m

\* the non-zero entries of a counter map, as the reports list them
NonZero(m) == [k \in {x \in DOMAIN m : m[x] > 0} |-> m[k]]

\* the waste report: grand total and the non-zero per-neuron and per-core lists
WasteReport(perNeuron, perCore) ==
    [total |-> SumMap(perNeuron),
     perNeuron |-> NonZero(perNeuron),
     perCore |-> NonZero(perCore)]

NoReport == [total |-> NoNode, perNeuron |-> EmptyMap, perCore |-> EmptyMap]

(***************************************************************************)
(* HBS mask router: HBSRoutingSimulator.                                   *)
(***************************************************************************)
\* mutant of HbsDestinations: the threshold is compared with > as the LCA
\* router does with its own
HbsDestinations_Above(s) ==
    {j \in Neurons : connectivityMatrix[s][j] > HbsWeightThreshold}

\* HBSRoutingSimulator constructor, the destinations source s talks to:
\* row[dstNeuron] >= weightThreshold
HbsDestinations(s) ==
    {j \in Neurons : connectivityMatrix[s][j] >= HbsWeightThreshold}

\* HBSRoutingSimulator constructor, tgtCores of one mapped source neuron
HbsTargetCores(s) ==
    {neuronToCoreMap[d] : d \in {j \in Neurons :
        /\ connectivityMatrix[s][j] >= HbsWeightThreshold
        /\ j \in DOMAIN neuronToCoreMap}}

\* mutant of PrecomputeTargets: the test for the source's own mapping is
\* left out, a source without core gets an entry too
PrecomputeTargets_AllSources ==
    [s \in {n \in Neurons : HbsTargetCores(n) # {}} |-> HbsTargetCores(s)]

\* HBSRoutingSimulator constructor: the precomputed actualTargetsPerNeuron
\* (unmapped sources and empty target sets get no entry)
PrecomputeTargets ==
    [s \in {n \in Neurons : n \in DOMAIN neuronToCoreMap
                            /\ HbsTargetCores(n) # {}} |-> HbsTargetCores(s)]

\* isSwitch (anonymous namespace)
isSwitch(nodeId, tree) == nodeId \in DOMAIN tree

RECURSIVE LeafBfs(_, _, _)
\* collectLeafCores, the BFS loop: q is the queue, leaves the result vector
LeafBfs(q, leaves, tree) ==
    IF q = << >> THEN leaves
    ELSE LET cur == Head(q)
         IN IF cur \notin DOMAIN tree
            THEN LeafBfs(Tail(q), Append(leaves, cur), tree)
            ELSE LET children == tree[cur]
                     sw == SelectSeq(children, LAMBDA c : isSwitch(c, tree))
                     lf == SelectSeq(children, LAMBDA c : ~isSwitch(c, tree))
                 IN LeafBfs(Tail(q) \o sw, leaves \o lf, tree)

\* collectLeafCores (anonymous namespace)
collectLeafCores(node, tree) ==
    IF ~isSwitch(node, tree) THEN <<node>>
    ELSE LeafBfs(<<node>>, << >>, tree)

\* mutant of childIndexUnder: the index is off by one (1-based)
childIndexUnder_OneBased(parent, child, tree) ==
    IF parent \notin DOMAIN tree THEN -1
    ELSE LET hits == {i \in DOMAIN tree[parent] : tree[parent][i] = child}
         IN IF hits = {} THEN -1 ELSE Min(hits)

\* childIndexUnder (anonymous namespace): 0-based index, -1 when absent
childIndexUnder(parent, child, tree) ==
    IF parent \notin DOMAIN tree THEN -1
    ELSE LET hits == {i \in DOMAIN tree[parent] : tree[parent][i] = child}
         IN IF hits = {} THEN -1 ELSE Min(hits) - 1

RECURSIVE isDescendant(_, _, _)
\* HBSRoutingSimulator::isDescendant: target is reachable from current
isDescendant(current, target, tree) ==
    \/ current = target
    \/ /\ current \in DOMAIN tree
       /\ \E i \in DOMAIN tree[current] : isDescendant(tree[current][i], target, tree)

\* simulateNeuronToNeuron, the child index a target core is filed under:
\* its index under the parent, else the first child that is its ancestor,
\* else the bucket -1
SlotIndex(parent, coreId, tree) ==
    LET idx == childIndexUnder(parent, coreId, tree)
    IN IF idx >= 0 THEN idx
       ELSE LET anc == {ci \in DOMAIN tree[parent] :
                            isDescendant(tree[parent][ci], coreId, tree)}
            IN IF anc = {} THEN -1 ELSE Min(anc) - 1

RECURSIVE GroupTargets(_, _, _, _)
\* simulateNeuronToNeuron, the loop over targetCores: g.parents is
\* parentSwitches, g.slots is parentToChildIdxTargets keyed by <<parent, idx>>
GroupTargets(cores, tree, parentMap, g) ==
    IF cores = << >> THEN g
    ELSE LET coreId == Head(cores)
         IN IF coreId \notin DOMAIN parentMap
            THEN GroupTargets(Tail(cores), tree, parentMap, g)
            ELSE LET parent == parentMap[coreId]
                     withParent == [g EXCEPT !.parents = @ \cup {parent}]
                 IN IF childIndexUnder(parent, coreId, tree) < 0
                       /\ parent \notin DOMAIN tree
                    THEN GroupTargets(Tail(cores), tree, parentMap, withParent)
                    ELSE LET key == <<parent, SlotIndex(parent, coreId, tree)>>
                             old == IF key \in DOMAIN g.slots
                                    THEN g.slots[key] ELSE {}
                         IN GroupTargets(Tail(cores), tree, parentMap,
                                [withParent EXCEPT
                                    !.slots = Put(@, key, old \cup {coreId})])

\* parentToChildIdxTargets[parent].find(ci): the targets filed there, if any
SlotTargets(slots, parent, ci) ==
    IF <<parent, ci>> \in DOMAIN slots THEN slots[<<parent, ci>>] ELSE {}

RECURSIVE MaskChildren_AllIndices(_, _, _, _, _)
\* mutant of MaskChildren: the index is inserted into the global mask
\* outside the test for targets, so every child index is opened
MaskChildren_AllIndices(slots, parent, ci, n, m) ==
    IF ci < n /\ ci < MAX_GROUP_SIZE
    THEN MaskChildren_AllIndices(slots, parent, ci + 1, n,
             [localMask |-> IF SlotTargets(slots, parent, ci) # {}
                            THEN m.localMask \cup {ci} ELSE m.localMask,
              globalMaskIndices |-> m.globalMaskIndices \cup {ci}])
    ELSE m

RECURSIVE MaskChildren_LocalOnly(_, _, _, _, _)
\* mutant of MaskChildren: the index goes into the local mask only, the
\* global mask is left as it was
MaskChildren_LocalOnly(slots, parent, ci, n, m) ==
    IF ci < n /\ ci < MAX_GROUP_SIZE
    THEN MaskChildren_LocalOnly(slots, parent, ci + 1, n,
             IF SlotTargets(slots, parent, ci) # {}
             THEN [m EXCEPT !.localMask = @ \cup {ci}]
             ELSE m)
    ELSE m

RECURSIVE MaskChildren(_, _, _, _, _)
\* simulateNeuronToNeuron, the inner loop over ci building localMask and
\* inserting the same index into globalMaskIndices
MaskChildren(slots, parent, ci, n, m) ==
    IF ci < n /\ ci < MAX_GROUP_SIZE
    THEN MaskChildren(slots, parent, ci + 1, n,
             IF SlotTargets(slots, parent, ci) # {}
             THEN [localMask |-> m.localMask \cup {ci},
                   globalMaskIndices |-> m.globalMaskIndices \cup {ci}]
             ELSE m)
    ELSE m

RECURSIVE BuildMasks_GlobalOverwritten(_, _, _, _)
\* mutant of BuildMasks: the global mask is reset for every parent, so it
\* ends as the local mask of the last parent instead of the OR of all
BuildMasks_GlobalOverwritten(parents, slots, tree, acc) ==
    IF parents = << >> THEN acc
    ELSE LET parent == Head(parents)
         IN IF parent \notin DOMAIN tree
            THEN BuildMasks_GlobalOverwritten(Tail(parents), slots, tree, acc)
            ELSE LET m == MaskChildren(slots, parent, 0, Len(tree[parent]),
                              [localMask |-> {}, globalMaskIndices |-> {}])
                 IN BuildMasks_GlobalOverwritten(Tail(parents), slots, tree,
                        [localMasks |-> Put(acc.localMasks, parent, m.localMask),
                         globalMaskIndices |-> m.globalMaskIndices])

RECURSIVE BuildMasks(_, _, _, _)
\* simulateNeuronToNeuron, the loop over parentSwitches computing the
\* per-parent local masks and the global OR mask
BuildMasks(parents, slots, tree, acc) ==
    IF parents = << >> THEN acc
    ELSE LET parent == Head(parents)
         IN IF parent \notin DOMAIN tree
            THEN BuildMasks(Tail(parents), slots, tree, acc)
            ELSE LET m == MaskChildren(slots, parent, 0, Len(tree[parent]),
                              [localMask |-> {},
                               globalMaskIndices |-> acc.globalMaskIndices])
                 IN BuildMasks(Tail(parents), slots, tree,
                        [localMasks |-> Put(acc.localMasks, parent, m.localMask),
                         globalMaskIndices |-> m.globalMaskIndices])

\* mutant of WastedLeavesHere: every leaf under the opened child is
\* charged, the targets too
WastedLeavesHere_Unconditional(leaves, tgtSet) == leaves

\* simulateNeuronToNeuron, the leaves whose wastedMessages entry is
\* incremented for one opened (parent, ci): none unless wasteHere > 0
WastedLeavesHere(leaves, tgtSet) ==
    IF Len(leaves) - Cardinality(tgtSet) > 0
    THEN IF Cardinality(tgtSet) = 0 THEN leaves
         ELSE SelectSeq(leaves, LAMBDA c : c \notin tgtSet)
    ELSE << >>

\* mutant of WasteHere: the targets under the child are not subtracted
WasteHere_IgnoreTargets(leaves, tgtSet) == Len(leaves)

\* simulateNeuronToNeuron, wasteHere as added to srcWaste for one (parent, ci)
WasteHere(leaves, tgtSet) ==
    IF Len(leaves) - Cardinality(tgtSet) > 0
    THEN Len(leaves) - Cardinality(tgtSet)
    ELSE 0

\* mutant of OpenedIndices: the parent broadcasts to all of its children
\* instead of the masked ones
OpenedIndices_WholeParent(parent, globalMaskIndices, tree) ==
    {ci \in 0 .. (Len(tree[parent]) - 1) : ci < MAX_GROUP_SIZE}

\* simulateNeuronToNeuron, the child indices a participating parent opens:
\* every index of the global mask that exists under it
OpenedIndices(parent, globalMaskIndices, tree) ==
    {ci \in globalMaskIndices :
        ~(ci < 0 \/ ci >= Len(tree[parent]) \/ ci >= MAX_GROUP_SIZE)}

RECURSIVE WasteChildren(_, _, _, _, _)
\* simulateNeuronToNeuron, the inner loop over the opened indices of a parent
WasteChildren(parent, cis, slots, tree, w) ==
    IF cis = << >> THEN w
    ELSE LET ci == Head(cis)
             childNode == tree[parent][ci + 1]
             leaves == collectLeafCores(childNode, tree)
             tgtSet == SlotTargets(slots, parent, ci)
         IN WasteChildren(parent, Tail(cis), slots, tree,
                [srcWaste |-> w.srcWaste + WasteHere(leaves, tgtSet),
                 coreInc |-> w.coreInc \o WastedLeavesHere(leaves, tgtSet)])

RECURSIVE WasteParents_LocalMask(_, _, _, _, _)
\* mutant of WasteParents: a parent opens the indices of its own local
\* mask only, not those other parents brought into the global mask
WasteParents_LocalMask(parents, globalMaskIndices, slots, tree, w) ==
    IF parents = << >> THEN w
    ELSE LET parent == Head(parents)
         IN IF parent \notin DOMAIN tree
            THEN WasteParents_LocalMask(Tail(parents), globalMaskIndices,
                     slots, tree, w)
            ELSE WasteParents_LocalMask(Tail(parents), globalMaskIndices,
                     slots, tree,
                     WasteChildren(parent,
                         SetToSeq({ci \in OpenedIndices(parent, globalMaskIndices, tree) :
                                      SlotTargets(slots, parent, ci) # {}}),
                         slots, tree, w))

RECURSIVE WasteParents(_, _, _, _, _)
\* simulateNeuronToNeuron, the loop over parentSwitches charging waste
WasteParents(parents, globalMaskIndices, slots, tree, w) ==
    IF parents = << >> THEN w
    ELSE LET parent == Head(parents)
         IN IF parent \notin DOMAIN tree
            THEN WasteParents(Tail(parents), globalMaskIndices, slots, tree, w)
            ELSE WasteParents(Tail(parents), globalMaskIndices, slots, tree,
                     WasteChildren(parent,
                         SetToSeq(OpenedIndices(parent, globalMaskIndices, tree)),
                         slots, tree, w))

\* HBSRoutingSimulator::simulateNeuronToNeuron: the locals of the call
HbsRoute(s) ==
    LET skipped == [NoCall EXCEPT !.router = "hbs", !.src = s,
                                  !.srcCore = CoreOf(s)]
    IN IF s \notin DOMAIN actualTargetsPerNeuron THEN skipped
       ELSE LET targetCores == actualTargetsPerNeuron[s]
            IN IF HbsTargetCores(s) = {} THEN skipped
               ELSE LET g == GroupTargets(SetToSeq(targetCores), hbsCoreTree,
                                 hbsCoreParent,
                                 [parents |-> {}, slots |-> EmptyMap])
                        parentSwitches == SetToSeq(g.parents)
                        masks == BuildMasks(parentSwitches, g.slots, hbsCoreTree,
                                     [localMasks |-> EmptyMap,
                                      globalMaskIndices |-> {}])
                        w == WasteParents(parentSwitches, masks.globalMaskIndices,
                                 g.slots, hbsCoreTree,
                                 [srcWaste |-> 0, coreInc |-> << >>])
                    IN [skipped EXCEPT
                          !.routed = TRUE,
                          !.targets = targetCores,
                          !.parents = g.parents,
                          !.slots = g.slots,
                          !.localMasks = masks.localMasks,
                          !.globalMask = masks.globalMaskIndices,
                          !.srcWaste = w.srcWaste,
                          !.coreInc = w.coreInc]

(***************************************************************************)
(* Inputs and the state machine of main().                                 *)
(***************************************************************************)
\* number of non-zero entries of a matrix
EdgeCount(m) == Cardinality({e \in Neurons \X Neurons : m[e[1]][e[2]] # 0})

\* the square 0/1 connectivity matrices with at most MaxEdges entries set
Matrices == {m \in [Neurons -> [Neurons -> Weights]] : EdgeCount(m) <= MaxEdges}

\* the neuron-to-core maps onto cores 0..n-1; a neuron may be left unmapped
\* (NeuronMapper::mapNeurons drops the neurons still queued when a cluster fills)
NeuronMaps(n) ==
    {[x \in {y \in Neurons : f[y] # NoNode} |-> f[x]] :
        f \in [Neurons -> (0 .. (n - 1)) \cup {NoNode}]}

\* main(): the state once both mappers are built for n cores and the matrix
\* is loaded, before RoutingSimulator::simulate starts
InitWith(n) ==
    /\ coreCount = n
    /\ connectivityMatrix \in Matrices
    /\ neuronToCoreMap \in NeuronMaps(n)
    /\ coreTree = buildBinaryTree(n).tree
    /\ coreParent = buildBinaryTree(n).parent
    /\ hbsCoreTree = buildHBSTree(n).tree
    /\ hbsCoreParent = buildHBSTree(n).parent
    /\ pc = "lca"
    /\ src = 0
    /\ neuronWaste = EmptyMap
    /\ coreWaste = EmptyMap
    /\ lcaReport = NoReport
    /\ actualTargetsPerNeuron = EmptyMap
    /\ pending = {}
    /\ wastePerNeuron = EmptyMap
    /\ wastedMessages = EmptyMap
    /\ hbsReport = NoReport
    /\ extraReports = 0
    /\ workers = EmptyMap
    /\ last = NoCall

Init == \E n \in 1 .. MaxCores : InitWith(n)

\* RoutingSimulator::simulate, one iteration of the loop over src; when
\* shortestPath never returns the run stays inside this iteration ("hung")
LcaSimulateSource ==
    /\ pc = "lca"
    /\ src < NumNeurons
    /\ LET r == LcaRoute(src)
       IN /\ last' = r
          /\ IF r.routed
             THEN /\ coreWaste' = IncrementAll(coreWaste, r.coreInc)
                  /\ neuronWaste' = Put(neuronWaste, src, r.srcWaste)
             ELSE UNCHANGED <<coreWaste, neuronWaste>>
          /\ src' = IF r.hangs THEN src ELSE src + 1
          /\ pc' = IF r.hangs THEN "hung" ELSE pc
    /\ UNCHANGED <<inputs, lcaReport, actualTargetsPerNeuron, pending,
                   wastePerNeuron, wastedMessages, hbsReport, extraReports,
                   workers>>

\* RoutingSimulator::simulate, the final waste summary after the loop
LcaSummary ==
    /\ pc = "lca"
    /\ src = NumNeurons
    /\ lcaReport' = WasteReport(neuronWaste, coreWaste)
    /\ pc' = "hbsConstruct"
    /\ UNCHANGED <<inputs, src, neuronWaste, coreWaste, actualTargetsPerNeuron,
                   pending, wastePerNeuron, wastedMessages, hbsReport,
                   extraReports, workers, last>>

\* HBSRoutingSimulator::HBSRoutingSimulator
HbsConstruct ==
    /\ pc = "hbsConstruct"
    /\ actualTargetsPerNeuron' = PrecomputeTargets
    /\ pending' = DOMAIN PrecomputeTargets
    /\ pc' = "hbs"
    /\ UNCHANGED <<inputs, src, neuronWaste, coreWaste, lcaReport,
                   wastePerNeuron, wastedMessages, hbsReport, extraReports,
                   workers, last>>

\* HBSRoutingSimulator::simulate, one iteration: the unordered_map is walked
\* in an unspecified order, so any key not yet visited may come next
HbsSimulateSource ==
    /\ pc = "hbs"
    /\ \E s \in pending :
          LET r == HbsRoute(s)
          IN /\ last' = r
             /\ IF r.routed
                THEN /\ wastePerNeuron' =
                            Put(wastePerNeuron, s, Get(wastePerNeuron, s) + r.srcWaste)
                     /\ wastedMessages' = IncrementAll(wastedMessages, r.coreInc)
                ELSE UNCHANGED <<wastePerNeuron, wastedMessages>>
             /\ pending' = pending \ {s}
    /\ UNCHANGED <<inputs, pc, src, neuronWaste, coreWaste, lcaReport,
                   actualTargetsPerNeuron, hbsReport, extraReports, workers>>

\* HBSRoutingSimulator::reportWasteStatistics, called once simulate returns
HbsReport ==
    /\ pc = "hbs"
    /\ pending = {}
    /\ hbsReport' = WasteReport(wastePerNeuron, wastedMessages)
    /\ pc' = "done"
    /\ UNCHANGED <<inputs, src, neuronWaste, coreWaste, lcaReport,
                   actualTargetsPerNeuron, pending, wastePerNeuron,
                   wastedMessages, extraReports, workers, last>>

\* HBSRoutingSimulator::reportWasteStatistics called by a client at another
\* point: the method is public and const, simulate() is not running (either
\* it has not started or main() is past it)
HbsReportAgain ==
    /\ \/ pc = "done"
       \/ /\ pc = "hbs"
          /\ pending # {}
          /\ pending = DOMAIN actualTargetsPerNeuron
          /\ extraReports = 0
    /\ extraReports < MaxExtraReports
    /\ hbsReport' = WasteReport(wastePerNeuron, wastedMessages)
    /\ extraReports' = extraReports + 1
    /\ UNCHANGED <<inputs, pc, src, neuronWaste, coreWaste, lcaReport,
                   actualTargetsPerNeuron, pending, wastePerNeuron,
                   wastedMessages, workers, last>>

Next ==
    \/ LcaSimulateSource
    \/ LcaSummary
    \/ HbsConstruct
    \/ HbsSimulateSource
    \/ HbsReport
    \/ HbsReportAgain

Spec == Init /\ [][Next]_vars

\* where main() stands: the simulator running, the LCA router's loop
\* variable and the HBS router's sources still to come
control == <<pc, src, pending>>

\* the control flow of main() and of the two simulate() loops, one step of
\* it: the guards and the control updates of the actions of Next
Advance ==
    \/ /\ pc = "lca"
       /\ src < NumNeurons
       /\ \/ src' = src + 1 /\ pc' = pc
          \/ src' = src /\ pc' = "hung"
       /\ pending' = pending
    \/ /\ pc = "lca"
       /\ src = NumNeurons
       /\ pc' = "hbsConstruct"
       /\ UNCHANGED <<src, pending>>
    \/ /\ pc = "hbsConstruct"
       /\ pc' = "hbs"
       /\ pending' = DOMAIN PrecomputeTargets
       /\ src' = src
    \/ /\ pc = "hbs"
       /\ \E s \in pending : pending' = pending \ {s}
       /\ UNCHANGED <<pc, src>>
    \/ /\ pc = "hbs"
       /\ pending = {}
       /\ pc' = "done"
       /\ UNCHANGED <<src, pending>>

\* main() is a sequential program that keeps running: while a statement
\* can execute, one does
LiveSpec == Spec /\ WF_control(Advance)

\* Scenario B of the specification: 8 cores, two full leaf switches
InitB == InitWith(2 * MAX_GROUP_SIZE)

SpecB == InitB /\ [][Next]_vars

\* a map without the entry for key k
DropKey(m, k) == [x \in DOMAIN m \ {k} |-> m[x]]

\* a child list without its i-th entry
DropChild(children, i) ==
    SubSeq(children, 1, i - 1) \o SubSeq(children, i + 1, Len(children))

\* the maps handed to the two simulators when both builders ran for n cores
Topology(n) ==
    [coreTree |-> buildBinaryTree(n).tree,
     coreParent |-> buildBinaryTree(n).parent,
     hbsCoreTree |-> buildHBSTree(n).tree,
     hbsCoreParent |-> buildHBSTree(n).parent]

\* the topologies for n cores that miss one entry: the simulators take the
\* child map and the parent map as they are given (constructor arguments),
\* and one of them lacks a key, or one child list lacks a child
DegradedTopologies(n) ==
    LET t == Topology(n)
    IN {[t EXCEPT !.coreParent = DropKey(@, k)] : k \in DOMAIN t.coreParent}
       \cup {[t EXCEPT !.hbsCoreParent = DropKey(@, k)] : k \in DOMAIN t.hbsCoreParent}
       \cup {[t EXCEPT !.hbsCoreTree = DropKey(@, k)] : k \in DOMAIN t.hbsCoreTree}
       \cup UNION {{[t EXCEPT !.hbsCoreTree[p] = DropChild(@, i)] :
                        i \in DOMAIN t.hbsCoreTree[p]} : p \in DOMAIN t.hbsCoreTree}

\* the neuron-to-core maps placing every neuron on the first, the third or
\* the last core
CornerMaps(n) == [Neurons -> {0, 2, n - 1}]

\* main() before RoutingSimulator::simulate, over given maps and topologies
InitOver(n, maps, topologies) ==
    /\ coreCount = n
    /\ connectivityMatrix \in Matrices
    /\ neuronToCoreMap \in maps
    /\ \E t \in topologies :
          /\ coreTree = t.coreTree
          /\ coreParent = t.coreParent
          /\ hbsCoreTree = t.hbsCoreTree
          /\ hbsCoreParent = t.hbsCoreParent
    /\ pc = "lca"
    /\ src = 0
    /\ neuronWaste = EmptyMap
    /\ coreWaste = EmptyMap
    /\ lcaReport = NoReport
    /\ actualTargetsPerNeuron = EmptyMap
    /\ pending = {}
    /\ wastePerNeuron = EmptyMap
    /\ wastedMessages = EmptyMap
    /\ hbsReport = NoReport
    /\ extraReports = 0
    /\ workers = EmptyMap
    /\ last = NoCall

\* the simulators run over a topology that misses one entry
InitD ==
    InitOver(DegradedCoreCount, CornerMaps(DegradedCoreCount),
             DegradedTopologies(DegradedCoreCount))

SpecD == InitD /\ [][Next]_vars

\* the endpoint count whose binary tree has the hard-coded rootCore as root
RootCoreCount == (rootCore + 2) \div 2

\* the binary topology rooted at rootCore, its parent map holding entries
\* for the nodes that have a parent only (none for the root)
InitR ==
    InitOver(RootCoreCount, CornerMaps(RootCoreCount),
             {[Topology(RootCoreCount) EXCEPT !.coreParent = DropKey(@, rootCore)]})

SpecR == InitR /\ [][Next]_vars

\* the matrices in which one source talks to any of the neurons, itself
\* included, and the other rows are empty
SingleSourceMatrices ==
    {m \in [Neurons -> [Neurons -> Weights]] :
        \E s \in Neurons : \A i \in Neurons \ {s} : \A j \in Neurons : m[i][j] = 0}

\* main() before RoutingSimulator::simulate, for one of the given core
\* counts, one of the given matrices and any neuron-to-core map
InitGiven(counts, matrices) ==
    /\ coreCount \in counts
    /\ connectivityMatrix \in matrices
    /\ neuronToCoreMap \in NeuronMaps(coreCount)
    /\ coreTree = Topology(coreCount).coreTree
    /\ coreParent = Topology(coreCount).coreParent
    /\ hbsCoreTree = Topology(coreCount).hbsCoreTree
    /\ hbsCoreParent = Topology(coreCount).hbsCoreParent
    /\ pc = "lca"
    /\ src = 0
    /\ neuronWaste = EmptyMap
    /\ coreWaste = EmptyMap
    /\ lcaReport = NoReport
    /\ actualTargetsPerNeuron = EmptyMap
    /\ pending = {}
    /\ wastePerNeuron = EmptyMap
    /\ wastedMessages = EmptyMap
    /\ hbsReport = NoReport
    /\ extraReports = 0
    /\ workers = EmptyMap
    /\ last = NoCall

\* MaxCores cores or two full leaf groups, and a matrix with one talking
\* source
InitF == InitGiven({MaxCores, 2 * MAX_GROUP_SIZE}, SingleSourceMatrices)

SpecF == InitF /\ [][Next]_vars

\* the matrices of integer weights 0 .. MaxWeight in which one source talks
\* and the other rows are empty: the simulators take any integer matrix
WeightedMatrices ==
    {m \in [Neurons -> [Neurons -> 0 .. MaxWeight]] :
        \E s \in Neurons : \A i \in Neurons \ {s} : \A j \in Neurons : m[i][j] = 0}

InitW == InitGiven({MaxCores}, WeightedMatrices)

SpecW == InitW /\ [][Next]_vars

\* the builders as functions of the endpoint count: nothing is built yet,
\* no neuron is placed and no routing follows
InitT ==
    /\ coreCount \in 0 .. MaxBuild
    /\ connectivityMatrix = [i \in Neurons |-> [j \in Neurons |-> 0]]
    /\ neuronToCoreMap = EmptyMap
    /\ coreTree = EmptyMap
    /\ coreParent = EmptyMap
    /\ hbsCoreTree = EmptyMap
    /\ hbsCoreParent = EmptyMap
    /\ pc = "buildBinary"
    /\ src = 0
    /\ neuronWaste = EmptyMap
    /\ coreWaste = EmptyMap
    /\ lcaReport = NoReport
    /\ actualTargetsPerNeuron = EmptyMap
    /\ pending = {}
    /\ wastePerNeuron = EmptyMap
    /\ wastedMessages = EmptyMap
    /\ hbsReport = NoReport
    /\ extraReports = 0
    /\ workers = EmptyMap
    /\ last = NoCall

\* NeuronMapper::mapNeurons, the tree construction for coreCount cores
BuildBinary ==
    /\ pc = "buildBinary"
    /\ coreTree' = buildBinaryTree(coreCount).tree
    /\ coreParent' = buildBinaryTree(coreCount).parent
    /\ pc' = "buildHbs"
    /\ UNCHANGED <<connectivityMatrix, neuronToCoreMap, hbsCoreTree,
                   hbsCoreParent, coreCount, src, neuronWaste, coreWaste,
                   lcaReport, actualTargetsPerNeuron, pending, wastePerNeuron,
                   wastedMessages, hbsReport, extraReports, workers, last>>

\* HBSNeuronMapper::buildHBSTree for coreCount cores
BuildHbs ==
    /\ pc = "buildHbs"
    /\ hbsCoreTree' = buildHBSTree(coreCount).tree
    /\ hbsCoreParent' = buildHBSTree(coreCount).parent
    /\ pc' = "built"
    /\ UNCHANGED <<connectivityMatrix, neuronToCoreMap, coreTree, coreParent,
                   coreCount, src, neuronWaste, coreWaste,
                   lcaReport, actualTargetsPerNeuron, pending, wastePerNeuron,
                   wastedMessages, hbsReport, extraReports, workers, last>>

NextT ==
    \/ BuildBinary
    \/ BuildHbs

SpecT == InitT /\ [][NextT]_vars

\* the LCA computation of RoutingSimulator::simulate as a function of the
\* source endpoint and the target set: the binary tree is built first
InitL ==
    /\ InitT
    /\ coreCount >= 2
    /\ coreCount <= MaxLcaCores

\* RoutingSimulator::simulate from the LCA computation to the enumeration of
\* the leaves under the LCA, for a source on srcCore with the non-empty set
\* actualTargetCores (the source's own core is never in it)
LcaChoice ==
    /\ pc = "built"
    /\ \E srcCore \in 0 .. (coreCount - 1) :
       \E actualTargetCores \in SUBSET ((0 .. (coreCount - 1)) \ {srcCore}) :
          /\ actualTargetCores # {}
          /\ LET lcaCore == ChooseLca(srcCore, actualTargetCores)
                 abandoned == lcaCore \notin DOMAIN coreParent /\ lcaCore # rootCore
             IN last' = [NoCall EXCEPT
                           !.router = "lca",
                           !.srcCore = srcCore,
                           !.targets = actualTargetCores,
                           !.lca = lcaCore,
                           !.routed = ~abandoned,
                           !.leaves = IF abandoned THEN {}
                                      ELSE collectLeafDescendants(coreTree, lcaCore)]
    /\ pc' = "chosen"
    /\ UNCHANGED <<inputs, src, neuronWaste, coreWaste, lcaReport,
                   actualTargetsPerNeuron, pending, wastePerNeuron,
                   wastedMessages, hbsReport, extraReports, workers>>

NextL ==
    \/ BuildBinary
    \/ BuildHbs
    \/ LcaChoice

SpecL == InitL /\ [][NextL]_vars

(***************************************************************************)
(* The per-source loops of the two simulators with their iterations run    *)
(* side by side: every routing call is a worker that computes its route    *)
(* from the shared maps, performs its counter increments one at a time     *)
(* and writes its per-source counter last.                                 *)
(***************************************************************************)
\* the core count of the runs with the routing calls side by side
ParCoreCount == 5

\* mutant of AtomicIncrement: the counter is stored, not added to
AtomicIncrement_Store(counter, c) == Put(counter, c, 1)

\* coreWaste[c]++ / wastedMessages[c]++ as one indivisible step
AtomicIncrement(counter, c) == Put(counter, c, Get(counter, c) + 1)

\* the routing call a worker <<router, source>> makes
RouteOf(w) == IF w[1] = "lca" THEN LcaRoute(w[2]) ELSE HbsRoute(w[2])

\* the workers of one router
WorkersOf(router) == {w \in DOMAIN workers : w[1] = router}

\* main() before the simulators run, for ParCoreCount cores
InitP ==
    InitOver(ParCoreCount, CornerMaps(ParCoreCount), {Topology(ParCoreCount)})

\* both simulators are constructed: the HBS target sets are precomputed and
\* one worker stands ready for every iteration of the two loops
ParConstruct ==
    /\ pc = "lca"
    /\ actualTargetsPerNeuron' = PrecomputeTargets
    /\ workers' = [w \in ({"lca"} \X Neurons) \cup ({"hbs"} \X DOMAIN PrecomputeTargets) |->
                      [phase |-> "idle", routed |-> FALSE, hangs |-> FALSE,
                       srcWaste |-> 0, todo |-> << >>]]
    /\ pc' = "par"
    /\ UNCHANGED <<inputs, src, neuronWaste, coreWaste, lcaReport, pending,
                   wastePerNeuron, wastedMessages, hbsReport, extraReports, last>>

\* a worker enters its iteration and computes the route of its source; the
\* HBS simulator is run once RoutingSimulator::simulate has returned
ParStart ==
    /\ pc = "par"
    /\ \E w \in DOMAIN workers :
          /\ workers[w].phase = "idle"
          /\ w[1] = "hbs" =>
                 \A v \in WorkersOf("lca") : workers[v].phase = "finished"
          /\ LET r == RouteOf(w)
             IN /\ workers' = [workers EXCEPT ![w] =
                                  [phase |-> "running", routed |-> r.routed,
                                   hangs |-> r.hangs, srcWaste |-> r.srcWaste,
                                   todo |-> r.coreInc]]
                /\ last' = r
    /\ UNCHANGED <<inputs, pc, src, neuronWaste, coreWaste, lcaReport,
                   actualTargetsPerNeuron, pending, wastePerNeuron,
                   wastedMessages, hbsReport, extraReports>>

\* a running worker performs the next counter increment of its call
ParIncrement ==
    /\ pc = "par"
    /\ \E w \in DOMAIN workers :
          /\ workers[w].phase = "running"
          /\ workers[w].todo # << >>
          /\ IF w[1] = "lca"
             THEN /\ coreWaste' = AtomicIncrement(coreWaste, Head(workers[w].todo))
                  /\ UNCHANGED wastedMessages
             ELSE /\ wastedMessages' =
                         AtomicIncrement(wastedMessages, Head(workers[w].todo))
                  /\ UNCHANGED coreWaste
          /\ workers' = [workers EXCEPT ![w].todo = Tail(@)]
    /\ UNCHANGED <<inputs, pc, src, neuronWaste, lcaReport,
                   actualTargetsPerNeuron, pending, wastePerNeuron,
                   hbsReport, extraReports, last>>

\* a worker that has made all its increments writes the counter of its own
\* source (neuronWaste[src] = totalCoreWaste, wastePerNeuron[src] += srcWaste)
\* and leaves its iteration
ParFinish ==
    /\ pc = "par"
    /\ \E w \in DOMAIN workers :
          /\ workers[w].phase = "running"
          /\ workers[w].todo = << >>
          /\ ~workers[w].hangs
          /\ IF workers[w].routed /\ w[1] = "lca"
             THEN /\ neuronWaste' = Put(neuronWaste, w[2], workers[w].srcWaste)
                  /\ UNCHANGED wastePerNeuron
             ELSE IF workers[w].routed
             THEN /\ wastePerNeuron' = Put(wastePerNeuron, w[2],
                         Get(wastePerNeuron, w[2]) + workers[w].srcWaste)
                  /\ UNCHANGED neuronWaste
             ELSE UNCHANGED <<neuronWaste, wastePerNeuron>>
          /\ workers' = [workers EXCEPT ![w].phase = "finished"]
    /\ UNCHANGED <<inputs, pc, src, coreWaste, lcaReport,
                   actualTargetsPerNeuron, pending, wastedMessages,
                   hbsReport, extraReports, last>>

\* every iteration has ended: the two summaries are written
ParReport ==
    /\ pc = "par"
    /\ \A w \in DOMAIN workers : workers[w].phase = "finished"
    /\ lcaReport' = WasteReport(neuronWaste, coreWaste)
    /\ hbsReport' = WasteReport(wastePerNeuron, wastedMessages)
    /\ pc' = "done"
    /\ UNCHANGED <<inputs, src, neuronWaste, coreWaste, actualTargetsPerNeuron,
                   pending, wastePerNeuron, wastedMessages, extraReports,
                   workers, last>>

NextP ==
    \/ ParConstruct
    \/ ParStart
    \/ ParIncrement
    \/ ParFinish
    \/ ParReport

SpecP == InitP /\ [][NextP]_vars

(***************************************************************************)
(* Vocabulary of the properties.                                           *)
(***************************************************************************)
\* the endpoints (real cores) of the topology
Endpoints == 0 .. (coreCount - 1)

\* the leaf endpoints that lie under node a of a tree
EndpointsUnder(tree, a) == {c \in Endpoints : isDescendant(a, c, tree)}

\* the target set of section 4.2: endpoints of the mapped destinations the
\* source talks to, its own endpoint removed; empty for an unmapped source
Resolve(s) ==
    IF s \notin DOMAIN neuronToCoreMap THEN {}
    ELSE {neuronToCoreMap[j] : j \in {d \in Neurons :
              /\ connectivityMatrix[s][d] >= HbsWeightThreshold
              /\ d \in DOMAIN neuronToCoreMap}} \ {neuronToCoreMap[s]}

\* the last step was a routing call of the named router that reached the
\* waste accounting
Routed(router) == last.router = router /\ last.routed

\* the child of switch p at 0-based child index ci
ChildAt(p, ci) == hbsCoreTree[p][ci + 1]

\* all of the target set t sits under child index ci of parent switch p
ConfinedTo(t, p, ci) ==
    /\ t # {}
    /\ p \in DOMAIN hbsCoreTree
    /\ ci >= 0
    /\ ci < Len(hbsCoreTree[p])
    /\ \A c \in t : /\ c \in DOMAIN hbsCoreParent
                    /\ hbsCoreParent[c] = p
                    /\ isDescendant(ChildAt(p, ci), c, hbsCoreTree)

\* the HBS target set cached for source s (none cached: empty)
CachedTargets(s) ==
    IF s \in DOMAIN actualTargetsPerNeuron THEN actualTargetsPerNeuron[s] ELSE {}

(***************************************************************************)
(* C1..C10.                                                                *)
(***************************************************************************)
\* C1: conservation law. In both routers the waste a routing call adds to
\* its source's counter equals the number of per-endpoint increments of that
\* call, so at every point of the run the per-source counters and the
\* per-endpoint counters have the same sum.
C1_Conservation ==
    /\ last.routed => last.srcWaste = Len(last.coreInc)
    /\ SumMap(neuronWaste) = SumMap(coreWaste)
    /\ SumMap(wastePerNeuron) = SumMap(wastedMessages)

\* C1 witness: an HBS call that charged waste, after an LCA run that did too
C1_Witness ==
    /\ Routed("hbs")
    /\ last.srcWaste >= 1
    /\ Cardinality(last.targets) >= 2
    /\ SumMap(wastedMessages) >= 1
    /\ SumMap(neuronWaste) >= 2

\* C2 (as claimed): the LCA router's waste for a source whose chosen ancestor
\* is A is the number of leaf endpoints under A minus the number of the
\* source's targets among them, and is never negative.
C2_LcaWasteIsLeafCountMinusTargets ==
    Routed("lca") =>
        LET under == EndpointsUnder(coreTree, last.lca)
        IN /\ Get(neuronWaste, last.src) =
                  Cardinality(under) - Cardinality(last.targets \cap under)
           /\ Get(neuronWaste, last.src) >= 0

\* C3: a routing step for a source whose target set is empty or absent adds
\* nothing to its per-source waste and changes no per-endpoint counter, in
\* both routers.
C3_NoTargetsNoWaste ==
    [][/\ (pc = "lca" /\ src' = src + 1 /\ Resolve(src) = {}) =>
              /\ coreWaste' = coreWaste
              /\ neuronWaste' = neuronWaste
              /\ Get(neuronWaste', src) = 0
       /\ \A s \in pending \ pending' :
              Resolve(s) = {} =>
                  /\ wastedMessages' = wastedMessages
                  /\ Get(wastePerNeuron', s) = 0]_vars

\* C3 witness: the HBS router was called for a source whose only
\* destinations share its own core, after the LCA router skipped it
C3_Witness ==
    /\ Routed("hbs")
    /\ Resolve(last.src) = {}
    /\ last.src \notin DOMAIN neuronWaste
    /\ SumMap(coreWaste) > 0

\* C4: in the HBS router the global mask of a call is exactly the union of
\* the local masks of the participating parent switches.
C4_GlobalMaskIsUnion ==
    Routed("hbs") =>
        /\ DOMAIN last.localMasks = last.parents \cap DOMAIN hbsCoreTree
        /\ last.globalMask =
               UNION {last.localMasks[p] : p \in DOMAIN last.localMasks}

\* C4 witness: two participating parents with different local masks
C4_Witness ==
    /\ Routed("hbs")
    /\ \E p, q \in DOMAIN last.localMasks :
           /\ last.localMasks[p] # last.localMasks[q]
           /\ last.localMasks[p] # {}
           /\ last.localMasks[q] # {}

\* C5: an HBS call whose targets are confined to one parent switch and one
\* child index records waste leafCount(child) minus the number of targets in
\* the slot, opens that index only, and increments no leaf outside it.
C5_SingleSlot ==
    Routed("hbs") =>
        \A p \in DOMAIN hbsCoreTree : \A ci \in 0 .. (MAX_GROUP_SIZE - 1) :
            ConfinedTo(last.targets, p, ci) =>
                LET under == EndpointsUnder(hbsCoreTree, ChildAt(p, ci))
                IN /\ Get(wastePerNeuron, last.src) =
                          Cardinality(under) - Cardinality(last.targets)
                   /\ last.globalMask = {ci}
                   /\ Range(last.coreInc) \subseteq under

\* C5 witness: such a call, for a slot that is not child index 0
C5_Witness ==
    /\ Routed("hbs")
    /\ \E p \in DOMAIN hbsCoreTree : \E ci \in 1 .. (MAX_GROUP_SIZE - 1) :
           ConfinedTo(last.targets, p, ci)

\* C6 (as claimed): the target set of a source is the set of endpoints of the
\* mapped destinations with matrix[source][j] >= threshold, the source's own
\* endpoint removed, for the HBS router's cached sets and for the LCA router.
C6_TargetSetExcludesOwnEndpoint ==
    /\ pc \in {"hbs", "done"} =>
           \A s \in DOMAIN neuronToCoreMap : CachedTargets(s) = Resolve(s)
    /\ Routed("lca") => last.targets = Resolve(last.src)

\* C7: Scenario A. Binary topology for 4 endpoints, source on endpoint 0
\* targeting endpoint 3 only: the LCA is the root, the leaves under it are
\* {0,1,2,3} and the recorded waste is 3.
C7_ScenarioA ==
    (/\ coreCount = 4
     /\ last.router = "lca"
     /\ last.srcCore = 0
     /\ LcaTargetCores(last.src) = {3}) =>
        /\ last.routed
        /\ last.lca = buildBinaryTree(4).root
        /\ coreParent[last.lca] = NoNode
        /\ last.leaves = {0, 1, 2, 3}
        /\ Get(neuronWaste, last.src) = 3

\* C7 witness: Scenario A was routed
C7_Witness ==
    /\ coreCount = 4
    /\ Routed("lca")
    /\ last.srcCore = 0
    /\ last.targets = {3}

\* C8 (as claimed): a routing call never increments the per-endpoint counter
\* of the endpoint its source is mapped to.
C8_OwnEndpointNeverCharged ==
    last.routed => last.srcCore \notin Range(last.coreInc)

\* C9 (as claimed): Scenario B. 8 endpoints under two leaf switches of 4, a
\* source under leaf switch 0 whose only target is child 2 of leaf switch 1:
\* local mask {2} at that switch and HBS waste 3.
C9_ScenarioB_Waste3 ==
    (/\ coreCount = 2 * MAX_GROUP_SIZE
     /\ Routed("hbs")
     /\ last.srcCore \in 0 .. (MAX_GROUP_SIZE - 1)
     /\ last.targets = {MAX_GROUP_SIZE + 2}) =>
        /\ last.localMasks[hbsCoreParent[MAX_GROUP_SIZE + 2]] = {2}
        /\ Get(wastePerNeuron, last.src) = 3

\* C9 (amended): in Scenario B the local mask at leaf switch 1 is {2} and the
\* recorded HBS waste is 0: only the target's own slot is opened, and the
\* other three endpoints of the leaf switch receive nothing.
C9_ScenarioB ==
    (/\ coreCount = 2 * MAX_GROUP_SIZE
     /\ Routed("hbs")
     /\ last.srcCore \in 0 .. (MAX_GROUP_SIZE - 1)
     /\ last.targets = {MAX_GROUP_SIZE + 2}) =>
        /\ hbsCoreTree[hbsCoreParent[MAX_GROUP_SIZE + 2]] =
               <<MAX_GROUP_SIZE, MAX_GROUP_SIZE + 1,
                 MAX_GROUP_SIZE + 2, MAX_GROUP_SIZE + 3>>
        /\ DOMAIN last.localMasks = {hbsCoreParent[MAX_GROUP_SIZE + 2]}
        /\ last.localMasks[hbsCoreParent[MAX_GROUP_SIZE + 2]] = {2}
        /\ Get(wastePerNeuron, last.src) = 0
        /\ last.coreInc = << >>

\* C9 witness: Scenario B was routed
C9_Witness ==
    /\ coreCount = 2 * MAX_GROUP_SIZE
    /\ Routed("hbs")
    /\ last.srcCore \in 0 .. (MAX_GROUP_SIZE - 1)
    /\ last.targets = {MAX_GROUP_SIZE + 2}

\* Scenario C: the routed source has its targets under child index i of a
\* parent switch, another source has its targets under child index j of the
\* same switch
ScenarioC(p, i, j) ==
    /\ Routed("hbs")
    /\ ConfinedTo(last.targets, p, i)
    /\ \E other \in DOMAIN actualTargetsPerNeuron \ {last.src} :
           ConfinedTo(actualTargetsPerNeuron[other], p, j)

\* C10 (as claimed): Scenario C. Two sources with targets under the same
\* parent switch at child indices 0 and 2: the global mask applied is {0,2}
\* and each source is charged waste under both opened indices.
C10_ScenarioC_SharedMask ==
    \A p \in DOMAIN hbsCoreTree :
        (ScenarioC(p, 0, 2) \/ ScenarioC(p, 2, 0)) =>
            /\ last.globalMask = {0, 2}
            /\ last.srcWaste > 0

\* C10 (amended): in Scenario C each source's call applies a global mask
\* holding only its own index ({0} for one source, {2} for the other); masks
\* are not merged across sources and neither source is charged waste under
\* the index only the other one needed.
C10_ScenarioC ==
    \A p \in DOMAIN hbsCoreTree : \A i, j \in {0, 2} :
        (i # j /\ ScenarioC(p, i, j)) =>
            /\ last.globalMask = {i}
            /\ Range(last.coreInc) \cap EndpointsUnder(hbsCoreTree, ChildAt(p, j)) = {}
            /\ Get(wastePerNeuron, last.src) = 0

\* C10 witness: both sources of Scenario C have been routed
C10_Witness ==
    /\ pc = "done"
    /\ \E p \in DOMAIN hbsCoreTree : ScenarioC(p, 0, 2) \/ ScenarioC(p, 2, 0)

(***************************************************************************)
(* C11..C20.                                                               *)
(***************************************************************************)
\* the four waste counter maps
Counters == <<neuronWaste, coreWaste, wastePerNeuron, wastedMessages>>

\* C11: the report is an idempotent read. Any call of reportWasteStatistics,
\* main()'s or a further one, before or after the routing, leaves all
\* per-source and per-endpoint waste counters as they were; and a further
\* call that follows an earlier one with no routing call in between
\* returns the same report.
C11_ReportIsIdempotentRead ==
    [][/\ (HbsReport \/ HbsReportAgain) => UNCHANGED Counters
       /\ (HbsReportAgain /\ hbsReport # NoReport) => hbsReport' = hbsReport]_vars

\* the report has been read again after main()'s call, with waste recorded
C11_Witness ==
    /\ pc = "done"
    /\ extraReports = MaxExtraReports
    /\ hbsReport.total >= 1
    /\ DOMAIN hbsReport.perCore # {}

\* counter map d is nowhere below counter map c, and holds no negative count
NotBelow(c, d) ==
    /\ \A k \in DOMAIN c : k \in DOMAIN d /\ d[k] >= c[k]
    /\ \A k \in DOMAIN d : d[k] >= 0

\* C12: every per-source and per-endpoint waste counter starts at zero (no
\* entry) and never decreases: no routing step, skip or report step lowers
\* or resets a counter.
C12_CountersMonotone ==
    /\ (neuronWaste = EmptyMap /\ coreWaste = EmptyMap
        /\ wastePerNeuron = EmptyMap /\ wastedMessages = EmptyMap)
    /\ [][/\ NotBelow(neuronWaste, neuronWaste')
          /\ NotBelow(coreWaste, coreWaste')
          /\ NotBelow(wastePerNeuron, wastePerNeuron')
          /\ NotBelow(wastedMessages, wastedMessages')]_vars

\* an endpoint counter has been raised by two routing calls, and the run
\* went on through the HBS router and the reports
C12_Witness ==
    /\ pc = "done"
    /\ \E c \in DOMAIN coreWaste : coreWaste[c] >= 2
    /\ DOMAIN wastePerNeuron # {}

\* C13: in the binary topology the filler child -1 paired with an odd node
\* is never reported as a leaf: the leaves enumerated under the LCA never
\* contain it, it never receives a waste increment, and so it never adds
\* to a source's waste.
C13_FillerNeverLeaf ==
    /\ NoNode \notin last.leaves
    /\ NoNode \notin Range(last.coreInc)
    /\ NoNode \notin DOMAIN coreWaste

\* the nodes of a topology over n endpoints: the endpoints and the switches
Nodes(tree, n) == (0 .. (n - 1)) \cup DOMAIN tree

\* the children a switch lists, the filler left out
Children(tree, p) == Range(tree[p]) \ {NoNode}

\* the nodes the parent map gives no parent
RootsOf(parent) == {x \in DOMAIN parent : parent[x] = NoNode}

RECURSIVE Climb(_, _, _)
\* the node reached from x by at most fuel parent lookups
Climb(parent, x, fuel) ==
    IF fuel = 0 \/ x \notin DOMAIN parent \/ parent[x] = NoNode THEN x
    ELSE Climb(parent, parent[x], fuel - 1)

\* tree and parent describe one rooted tree over the endpoints 0 .. n-1
RootedTree(tree, parent, n) ==
    LET nodes == Nodes(tree, n)
        roots == RootsOf(parent)
    IN /\ Cardinality(roots) = 1
       /\ DOMAIN parent = nodes
       /\ \A x \in nodes \ roots :
              /\ parent[x] \in DOMAIN tree
              /\ Cardinality({i \in DOMAIN tree[parent[x]] :
                                  tree[parent[x]][i] = x}) = 1
              /\ \A q \in DOMAIN tree : x \in Children(tree, q) => q = parent[x]
       /\ \A p \in DOMAIN tree :
              /\ Children(tree, p) \subseteq nodes \ roots
              /\ \A i, j \in DOMAIN tree[p] : i # j => tree[p][i] # tree[p][j]
       /\ \A x \in nodes : Climb(parent, x, Cardinality(nodes)) \in roots
       /\ \A e \in 0 .. (n - 1) : \A r \in roots : isDescendant(r, e, tree)

\* C14: for every endpoint count N >= 1 both builders produce a rooted
\* tree: one root without parent, every other node with exactly one parent
\* that lists it as a child exactly once, no cycle, every endpoint reachable
\* from the root, no duplicates in a child list, parent map and child lists
\* in agreement (the filler -1 of the binary variant is no node).
C14_BuildersProduceRootedTree ==
    /\ (pc \in {"buildHbs", "built"} /\ coreCount >= 1)
           => RootedTree(coreTree, coreParent, coreCount)
    /\ (pc = "built" /\ coreCount >= 1)
           => RootedTree(hbsCoreTree, hbsCoreParent, coreCount)

\* both trees are built for an odd endpoint count: the binary one holds a
\* filler, the hierarchical one a switch with a single child
C14_Witness ==
    /\ pc = "built"
    /\ coreCount >= 9
    /\ \E p \in DOMAIN coreTree : NoNode \in Range(coreTree[p])
    /\ \E p \in DOMAIN hbsCoreTree : Len(hbsCoreTree[p]) = 1

RECURSIVE UpperSwitches(_)
\* the number of switches pairwise combination puts above k switches
UpperSwitches(k) ==
    IF k <= 1 THEN 0 ELSE (k + 1) \div 2 + UpperSwitches((k + 1) \div 2)

\* C15: the hierarchical builder with W = 4 groups the endpoints
\* consecutively: endpoint i is the child at index i mod W of leaf switch
\* number i div W; a switch directly above endpoints has at most W children,
\* all of them endpoints; the leaf switches are combined pairwise bottom-up
\* (every higher switch has two neighbouring switches as children, the last
\* of an odd level one) until exactly one root remains.
C15_ConsecutiveLeafGroups ==
    (pc = "built" /\ coreCount >= 1) =>
        LET n == coreCount
            W == MAX_GROUP_SIZE
            tree == hbsCoreTree
            leafSwitches == {n + k : k \in 0 .. ((n - 1) \div W)}
        IN /\ \A i \in 0 .. (n - 1) :
                  /\ hbsCoreParent[i] = n + (i \div W)
                  /\ childIndexUnder(hbsCoreParent[i], i, tree) = i % W
           /\ \A p \in leafSwitches :
                  /\ p \in DOMAIN tree
                  /\ Len(tree[p]) <= W
                  /\ Range(tree[p]) \subseteq 0 .. (n - 1)
           /\ \A p \in DOMAIN tree \ leafSwitches :
                  /\ Len(tree[p]) \in {1, 2}
                  /\ Range(tree[p]) \subseteq DOMAIN tree
                  /\ \A i \in DOMAIN tree[p] : tree[p][i] < p
                  /\ Len(tree[p]) = 2 => tree[p][2] = tree[p][1] + 1
           /\ Cardinality(DOMAIN tree) =
                  Cardinality(leafSwitches) + UpperSwitches(Cardinality(leafSwitches))
           /\ Cardinality(RootsOf(hbsCoreParent)) = 1

\* a hierarchical tree with a partly filled last group and an odd number
\* of leaf switches has been built
C15_Witness ==
    /\ pc = "built"
    /\ coreCount > 2 * MAX_GROUP_SIZE
    /\ coreCount % MAX_GROUP_SIZE # 0
    /\ ((coreCount - 1) \div MAX_GROUP_SIZE) % 2 = 0
    /\ hbsCoreTree # EmptyMap

C17_LookupFailureAbandons ==
    (/\ last.router = "lca"
     /\ last.targets # {}
     /\ (last.lca = NoNode \/ last.lca \notin DOMAIN coreParent))
        => /\ ~last.routed
           /\ last.coreInc = << >>
           /\ last.src \notin DOMAIN neuronWaste
           /\ pc # "hung"
           /\ src = last.src + 1

\* target endpoint c of the HBS router cannot be filed: it has no parent
\* entry, or its parent is no switch of the child map, or it is no direct
\* child of its parent and no child of the parent is its ancestor
Unresolvable(c) ==
    \/ c \notin DOMAIN hbsCoreParent
    \/ hbsCoreParent[c] \notin DOMAIN hbsCoreTree
    \/ SlotIndex(hbsCoreParent[c], c, hbsCoreTree) < 0

\* what simulateNeuronToNeuron records for the target set t
HbsWasteOver(t) ==
    LET g == GroupTargets(SetToSeq(t), hbsCoreTree, hbsCoreParent,
                 [parents |-> {}, slots |-> EmptyMap])
        masks == BuildMasks(SetToSeq(g.parents), g.slots, hbsCoreTree,
                     [localMasks |-> EmptyMap, globalMaskIndices |-> {}])
    IN WasteParents(SetToSeq(g.parents), masks.globalMaskIndices, g.slots,
           hbsCoreTree, [srcWaste |-> 0, coreInc |-> << >>])

\* C18: in the HBS router a target whose parent is absent from the topology
\* or whose child index under its parent cannot be resolved is skipped: it
\* puts no index into a local or the global mask, its parent does not take
\* part because of it, the waste recorded is the waste of the other targets
\* alone, and those other targets are still filed and served.
C18_UnresolvableTargetSkipped ==
    Routed("hbs") =>
        LET bad == {c \in last.targets : Unresolvable(c)}
            good == last.targets \ bad
        IN /\ \A p \in DOMAIN last.localMasks : \A ci \in last.localMasks[p] :
                  \E c \in good : /\ hbsCoreParent[c] = p
                                  /\ SlotIndex(p, c, hbsCoreTree) = ci
           /\ \A ci \in last.globalMask :
                  \E c \in good : SlotIndex(hbsCoreParent[c], c, hbsCoreTree) = ci
           /\ \A p \in last.parents \cap DOMAIN hbsCoreTree :
                  \E c \in good : hbsCoreParent[c] = p
           /\ last.srcWaste = HbsWasteOver(good).srcWaste
           /\ Range(last.coreInc) = Range(HbsWasteOver(good).coreInc)
           /\ \A c \in good :
                  c \in SlotTargets(last.slots, hbsCoreParent[c],
                                    SlotIndex(hbsCoreParent[c], c, hbsCoreTree))

\* C19: a source without endpoint mapping is a no-op in both routers. The
\* LCA router passes over it without touching a counter and goes on with
\* the next source; the HBS router caches no target set for it and never
\* iterates it; it has no waste entry in either router; and the mapped
\* sources with targets are all routed, whatever unmapped sources precede.
C19_UnmappedSourceSkipped ==
    /\ [](\A s \in Neurons \ DOMAIN neuronToCoreMap :
              /\ s \notin DOMAIN actualTargetsPerNeuron
              /\ s \notin pending
              /\ s \notin DOMAIN neuronWaste
              /\ s \notin DOMAIN wastePerNeuron)
    /\ [][(pc = "lca" /\ src < NumNeurons /\ src \notin DOMAIN neuronToCoreMap)
             => /\ UNCHANGED Counters
                /\ ~last'.routed
                /\ last'.targets = {}
                /\ src' = src + 1
                /\ pc' = pc]_vars
    /\ [](pc # "lca" =>
              \A s \in DOMAIN neuronToCoreMap :
                  LcaTargetCores(s) # {} => s \in DOMAIN neuronWaste)
    /\ [](pc = "done" =>
              \A s \in DOMAIN neuronToCoreMap :
                  HbsTargetCores(s) # {} => s \in DOMAIN wastePerNeuron)

\* an unmapped source with connections was passed over and a later source
\* has been routed with waste
C19_Witness ==
    /\ Routed("lca")
    /\ last.srcWaste >= 1
    /\ \E u \in Neurons \ DOMAIN neuronToCoreMap :
          /\ u < last.src
          /\ \E j \in DOMAIN neuronToCoreMap : connectivityMatrix[u][j] > 0

\* C20: a run over a builder-produced topology terminates: it reaches the
\* end of main() with every source considered, both reports written from
\* the final counters, and stays there. Each source is considered exactly
\* once (the LCA router steps through 0, 1, 2, ..., the HBS router takes the
\* cached sources one by one), and no call gets stuck.
C20_RunTerminates ==
    /\ <>[](/\ pc = "done"
            /\ src = NumNeurons
            /\ pending = {}
            /\ lcaReport = WasteReport(neuronWaste, coreWaste)
            /\ hbsReport = WasteReport(wastePerNeuron, wastedMessages))
    /\ [][/\ (src' # src) => (src' = src + 1 /\ last'.src = src)
          /\ (pc = "hbs" /\ pending' # pending) =>
                 (\E s \in pending : pending' = pending \ {s} /\ last'.src = s)]_vars
    /\ [](pc # "hung")

\* the run has ended with waste reported by both routers although a source
\* was passed over on the way
C20_Witness ==
    /\ pc = "done"
    /\ lcaReport.total >= 1
    /\ hbsReport.total >= 1
    /\ \E s \in Neurons : s \notin DOMAIN neuronWaste

(***************************************************************************)
(* C21..C30.                                                               *)
(***************************************************************************)
RECURSIVE LcaRun(_, _)
\* RoutingSimulator::simulate run alone: the sources s .. NumNeurons-1 in
\* increasing order, each call completed before the next starts
LcaRun(s, c) ==
    IF s >= NumNeurons THEN c
    ELSE LET r == LcaRoute(s)
         IN LcaRun(s + 1,
                IF r.routed
                THEN [perNeuron |-> Put(c.perNeuron, s, r.srcWaste),
                      perCore |-> IncrementAll(c.perCore, r.coreInc)]
                ELSE c)

RECURSIVE HbsRun(_, _)
\* HBSRoutingSimulator::simulate run alone over the given sequence of sources
HbsRun(sources, c) ==
    IF sources = << >> THEN c
    ELSE LET s == Head(sources)
             r == HbsRoute(s)
         IN HbsRun(Tail(sources),
                IF r.routed
                THEN [perNeuron |-> Put(c.perNeuron, s,
                                        Get(c.perNeuron, s) + r.srcWaste),
                      perCore |-> IncrementAll(c.perCore, r.coreInc)]
                ELSE c)

NoCounts == [perNeuron |-> EmptyMap, perCore |-> EmptyMap]

\* the counters of the sequential runs, sources in increasing order
SequentialLca == LcaRun(0, NoCounts)

SequentialHbs == HbsRun(SetToSeq(DOMAIN actualTargetsPerNeuron), NoCounts)

\* how often c occurs in a sequence
Occurrences(seq, c) == Cardinality({i \in DOMAIN seq : seq[i] = c})

\* the increments a worker has still to make
Outstanding(w) ==
    IF workers[w].phase = "idle"
    THEN (IF RouteOf(w).routed THEN RouteOf(w).coreInc ELSE << >>)
    ELSE workers[w].todo

\* the increments of endpoint c that the workers of a router have still to make
OutstandingAt(router, c) ==
    LET W == WorkersOf(router)
    IN SumOver([w \in W |-> Occurrences(Outstanding(w), c)], W)

\* the per-source counter holds the sequential value for the sources whose
\* worker has finished, and nothing for the others
SourcesAsSequential(router, counter, sequential) ==
    \A w \in WorkersOf(router) :
        IF workers[w].phase = "finished"
        THEN /\ Get(counter, w[2]) = Get(sequential, w[2])
             /\ (w[2] \in DOMAIN counter) = (w[2] \in DOMAIN sequential)
        ELSE w[2] \notin DOMAIN counter

\* C21: per-source routing is order-independent. With the iterations of the
\* two loops started in any order and their counter increments interleaved
\* one at a time, every endpoint counter plus the increments still to be made
\* equals the counter of the sequential run, every finished source has the
\* per-source waste of the sequential run, and the final counters are those
\* of the sequential run.
C21_OrderIndependent ==
    pc \in {"par", "done"} =>
        LET lca == SequentialLca
            hbs == SequentialHbs
        IN /\ \A c \in Endpoints \cup {NoNode} :
                 /\ Get(coreWaste, c) + OutstandingAt("lca", c) =
                        Get(lca.perCore, c)
                 /\ Get(wastedMessages, c) + OutstandingAt("hbs", c) =
                        Get(hbs.perCore, c)
           /\ DOMAIN coreWaste \subseteq Endpoints \cup {NoNode}
           /\ DOMAIN wastedMessages \subseteq Endpoints \cup {NoNode}
           /\ SourcesAsSequential("lca", neuronWaste, lca.perNeuron)
           /\ SourcesAsSequential("hbs", wastePerNeuron, hbs.perNeuron)
           /\ pc = "done" =>
                 /\ neuronWaste = lca.perNeuron
                 /\ coreWaste = lca.perCore
                 /\ wastePerNeuron = hbs.perNeuron
                 /\ wastedMessages = hbs.perCore

\* two calls of the LCA router are both part-way through their increments
C21_Witness ==
    /\ pc = "par"
    /\ \E v, w \in WorkersOf("lca") :
          /\ v # w
          /\ \A x \in {v, w} :
                /\ workers[x].phase = "running"
                /\ workers[x].todo # << >>
                /\ Len(workers[x].todo) < workers[x].srcWaste

\* a report lists the grand total of the per-source counters and exactly
\* the positive entries of the two counter maps, each with its count
ReportMatches(report, perNeuron, perCore) ==
    /\ report.total = SumOver(perNeuron, DOMAIN perNeuron)
    /\ DOMAIN report.perNeuron = {s \in DOMAIN perNeuron : perNeuron[s] > 0}
    /\ \A s \in DOMAIN report.perNeuron : report.perNeuron[s] = perNeuron[s]
    /\ DOMAIN report.perCore = {c \in DOMAIN perCore : perCore[c] > 0}
    /\ \A c \in DOMAIN report.perCore : report.perCore[c] = perCore[c]

\* C22: once the run has ended, the final report of each router has as its
\* grand total the sum of all per-source waste counters, lists exactly the
\* sources whose counter is greater than zero and exactly the entries of the
\* per-endpoint counter map that are greater than zero, each with its value.
C22_ReportContent ==
    pc = "done" =>
        /\ ReportMatches(lcaReport, neuronWaste, coreWaste)
        /\ ReportMatches(hbsReport, wastePerNeuron, wastedMessages)

\* the run ended with waste in the LCA report and with a source routed by
\* the HBS router whose counter is zero, which the per-source list leaves out
C22_Witness ==
    /\ pc = "done"
    /\ lcaReport.total >= 2
    /\ DOMAIN lcaReport.perCore # {}
    /\ \E s \in DOMAIN wastePerNeuron :
          /\ wastePerNeuron[s] = 0
          /\ s \notin DOMAIN hbsReport.perNeuron

\* the (parent, child index) pairs the last HBS call opened: every
\* participating parent switch with every index of the global mask that
\* exists under it
OpenedSlots ==
    {sl \in last.parents \X last.globalMask :
        /\ sl[1] \in DOMAIN hbsCoreTree
        /\ sl[2] >= 0
        /\ sl[2] < Len(hbsCoreTree[sl[1]])}

\* leaf endpoints under an opened slot minus the targets recorded for it
SlotWaste(slot) ==
    Cardinality(EndpointsUnder(hbsCoreTree, ChildAt(slot[1], slot[2])))
        - Cardinality(SlotTargets(last.slots, slot[1], slot[2]))

\* C23: the waste an HBS call adds for its source is the sum, over every
\* participating parent switch p and every child index ci of the global mask
\* that exists under p (in p's local mask or not), of the number of leaf
\* endpoints under child ci of p minus the number of targets recorded under
\* (p, ci); and where (p, ci) has no target, every leaf under it gets one
\* per-endpoint increment.
C23_HbsWasteFormula ==
    Routed("hbs") =>
        /\ last.srcWaste = SumOver([sl \in OpenedSlots |-> SlotWaste(sl)], OpenedSlots)
        /\ Get(wastePerNeuron, last.src) = last.srcWaste
        /\ \A sl \in OpenedSlots :
              SlotTargets(last.slots, sl[1], sl[2]) = {} =>
                  \A c \in EndpointsUnder(hbsCoreTree, ChildAt(sl[1], sl[2])) :
                      Occurrences(last.coreInc, c) = 1

\* an HBS call opened an index under a parent whose local mask lacks it, and
\* charged the leaf under that slot
C23_Witness ==
    /\ Routed("hbs")
    /\ \E sl \in OpenedSlots :
          /\ sl[2] \notin last.localMasks[sl[1]]
          /\ SlotTargets(last.slots, sl[1], sl[2]) = {}
          /\ last.srcWaste >= 1

RECURSIVE AncestorsOrSelf(_, _)
\* node x of the binary topology and the switches above it
AncestorsOrSelf(x, fuel) ==
    IF x = NoNode \/ fuel = 0 THEN {}
    ELSE {x} \cup AncestorsOrSelf(IF x \in DOMAIN coreParent THEN coreParent[x]
                                  ELSE NoNode, fuel - 1)

\* the tree edges climbed on the way from node a to node b: the nodes from a
\* upward that are not above b
EdgesUp(a, b) ==
    Cardinality(AncestorsOrSelf(a, 2 * coreCount + 2)
                    \ AncestorsOrSelf(b, 2 * coreCount + 2))

\* the positions of a route trace that hold one of the given units
UnitsAt(trace, units) == {i \in DOMAIN trace : trace[i] \in units}

\* C24 (as claimed): the route trace of an LCA call is one ascend unit per
\* level climbed from the source endpoint toward the LCA, then one descend
\* (left/right) unit per level descended toward the LCA, then exactly one
\* broadcast marker; the ascend units are as many as the upward tree edges
\* on the path from the source endpoint to the LCA.
C24_RouteTrace ==
    Routed("lca") =>
        LET trace == last.routingPath
            up == EdgesUp(last.srcCore, last.lca)
            down == EdgesUp(last.lca, last.srcCore)
        IN /\ UnitsAt(trace, {"U"}) = 1 .. up
           /\ UnitsAt(trace, {"L", "R"}) = (Len(trace) - down) .. (Len(trace) - 1)
           /\ UnitsAt(trace, {"B"}) = {Len(trace)}

\* C25 (as claimed): for the same matrix and neuron-to-core map, over the binary and the
\* hierarchical topology built for the same number of cores, the waste the
\* HBS router records for a source is never greater than the waste the
\* subtree-broadcast (LCA) router records for that source.
C25_HbsNeverAboveLca ==
    /\ Routed("hbs") => last.srcWaste <= Get(neuronWaste, last.src)
    /\ pc \in {"hbs", "done"} =>
           \A s \in Neurons : Get(wastePerNeuron, s) <= Get(neuronWaste, s)

\* the nodes of the binary topology that have every target under them
CommonAncestors(targets) ==
    {a \in DOMAIN coreTree :
        \A t \in targets : a \in AncestorsOrSelf(t, 2 * coreCount + 2)}

\* C26: broadcast delivery completeness. On the topology of the binary
\* builder, for a source with at least two target endpoints the ancestor
\* chosen (the LCA of the smallest and the largest target) is the lowest
\* common ancestor of the whole target set: every target is under it and
\* every other common ancestor is above it; every target is among the leaves
\* enumerated under it. With one target the chosen ancestor (LCA of source
\* endpoint and target) has the target among its leaves too.
C26_BroadcastReachesTargets ==
    (last.router = "lca" /\ last.targets # {}) =>
        /\ last.routed
        /\ last.targets \subseteq last.leaves
        /\ Cardinality(last.targets) >= 2 =>
               /\ last.lca \in CommonAncestors(last.targets)
               /\ CommonAncestors(last.targets) \subseteq
                      AncestorsOrSelf(last.lca, 2 * coreCount + 2)
        /\ Cardinality(last.targets) = 1 =>
               /\ last.lca \in CommonAncestors(last.targets \cup {last.srcCore})
               /\ CommonAncestors(last.targets \cup {last.srcCore}) \subseteq
                      AncestorsOrSelf(last.lca, 2 * coreCount + 2)

\* an LCA was chosen for three or more targets that lie under a switch below
\* the root, smallest and largest target apart
C26_Witness ==
    /\ pc = "chosen"
    /\ Cardinality(last.targets) >= 3
    /\ coreParent[last.lca] # NoNode
    /\ Cardinality(last.leaves) > Cardinality(last.targets)

\* the 0-based position of endpoint c in the child list of its parent switch
ChildIndexOf(c) ==
    CHOOSE ci \in 0 .. (Len(hbsCoreTree[hbsCoreParent[c]]) - 1) :
        ChildAt(hbsCoreParent[c], ci) = c

\* C27: HBS delivery completeness. On the topology of the hierarchical
\* builder, for every routed source and every one of its target endpoints,
\* the target's parent switch participates and the target's child index is
\* in the global mask, so the target lies under an opened (parent, index)
\* slot, is recorded there as a target and receives no waste increment.
C27_HbsReachesTargets ==
    Routed("hbs") =>
        \A c \in last.targets :
            /\ c \in DOMAIN hbsCoreParent
            /\ hbsCoreParent[c] \in last.parents
            /\ c \in Range(hbsCoreTree[hbsCoreParent[c]])
            /\ ChildIndexOf(c) \in last.globalMask
            /\ <<hbsCoreParent[c], ChildIndexOf(c)>> \in OpenedSlots
            /\ c \in SlotTargets(last.slots, hbsCoreParent[c], ChildIndexOf(c))
            /\ c \notin Range(last.coreInc)

\* an HBS call for three targets under two parent switches that charged waste
C27_Witness ==
    /\ Routed("hbs")
    /\ Cardinality(last.targets) >= 3
    /\ Cardinality({hbsCoreParent[c] : c \in last.targets}) = 2
    /\ last.srcWaste >= 2

\* C28: in both routers one routing call increments the waste counter of
\* any endpoint at most once and never that of an endpoint of the source's
\* target set; so at every point of the run no endpoint counter exceeds the
\* number of sources its router has routed.
C28_AtMostOncePerCall ==
    /\ last.routed =>
           /\ \A c \in Range(last.coreInc) : Occurrences(last.coreInc, c) = 1
           /\ Range(last.coreInc) \cap last.targets = {}
           /\ Range(last.coreInc) \cap Resolve(last.src) = {}
    /\ \A c \in DOMAIN coreWaste :
           coreWaste[c] <= Cardinality(DOMAIN neuronWaste)
    /\ \A c \in DOMAIN wastedMessages :
           wastedMessages[c] <= Cardinality(DOMAIN wastePerNeuron)

\* the run ended with an endpoint charged by each of the two sources the
\* LCA router routed, the HBS router having routed two sources as well
C28_Witness ==
    /\ pc = "done"
    /\ Cardinality(DOMAIN neuronWaste) = 2
    /\ \E c \in DOMAIN coreWaste : coreWaste[c] = 2
    /\ Cardinality(DOMAIN wastePerNeuron) = 2

\* the endpoints of the mapped neurons among a set of neurons
CoresOf(neurons) == {neuronToCoreMap[j] : j \in neurons \cap DOMAIN neuronToCoreMap}

\* C29: for a matrix of non-negative integer weights the rule of the HBS
\* router (weight >= 1) and the rule of the LCA router (weight > 0) classify
\* the same (source, destination) pairs as "talks to": both routers start
\* from the same destination neurons for every source, the LCA call from
\* their endpoints less the source's own and the HBS cache from their
\* endpoints.
C29_SameDestinations ==
    /\ \A s \in Neurons : LcaDestinations(s) = HbsDestinations(s)
    /\ (last.router = "lca" /\ last.src \in DOMAIN neuronToCoreMap) =>
           LcaTargetCores(last.src) =
               CoresOf(HbsDestinations(last.src)) \ {last.srcCore}
    /\ pc \in {"hbs", "done"} =>
           \A s \in DOMAIN neuronToCoreMap :
               CachedTargets(s) = CoresOf(LcaDestinations(s))

\* both routers have routed a source with one destination of weight 1 and
\* one of a larger weight
C29_Witness ==
    /\ Routed("hbs")
    /\ last.src \in DOMAIN neuronWaste
    /\ \E i, j \in Neurons :
          /\ connectivityMatrix[last.src][i] = 1
          /\ connectivityMatrix[last.src][j] > 1
          /\ {i, j} \subseteq DOMAIN neuronToCoreMap
          /\ neuronToCoreMap[i] # neuronToCoreMap[j]

\* the ids of a topology over n endpoints grow upward: every switch has a
\* larger id than each real child, the switches are numbered n, n+1, ...
\* without gap, and the root has the largest id of all nodes
IdsGrowUpward(tree, parent, n) ==
    /\ \A p \in DOMAIN tree : \A c \in Children(tree, p) : p > c
    /\ DOMAIN tree = n .. (n + Cardinality(DOMAIN tree) - 1)
    /\ n >= 1 => RootsOf(parent) = {Max(Nodes(tree, n))}

\* C30: in the topology of either builder each switch id is strictly greater
\* than the id of every real child it owns (the endpoints are 0 .. N-1, the
\* switches are numbered upward from N as they are created), and the root is
\* the node with the largest id.
C30_IdsGrowUpward ==
    /\ pc \in {"buildHbs", "built"} =>
           IdsGrowUpward(coreTree, coreParent, coreCount)
    /\ pc = "built" => IdsGrowUpward(hbsCoreTree, hbsCoreParent, coreCount)

\* both trees are built for an odd endpoint count of several levels, the
\* two roots having different ids
C30_Witness ==
    /\ pc = "built"
    /\ coreCount >= 9
    /\ coreCount % 2 = 1
    /\ RootsOf(coreParent) # RootsOf(hbsCoreParent)
    /\ Cardinality(DOMAIN coreTree) > Cardinality(DOMAIN hbsCoreTree)

====
